---- MODULE Spec2Model ----
(***************************************************************************)
(* The lobby API of src/server/api.ts: rooms ("games") kept in a metadata  *)
(* store, player slots that are joined, left, renamed and rejoined,        *)
(* succession ("play again"), team formation and leader rotation.          *)
(*                                                                         *)
(* The store (db) is the collaborator behind fetch / setMetadata /         *)
(* createGame / wipe.  fetch hands the handler its own copy of the record; *)
(* what a handler changes reaches the store only through setMetadata,      *)
(* createGame or wipe.                                                     *)
(*                                                                         *)
(* Encoding of JavaScript values:                                          *)
(*   - a missing string (undefined) is "", a missing credential or id is 0 *)
(*     or -1 as stated at each definition;                                 *)
(*   - an optional object carries a "present" flag;                        *)
(*   - slot ids are the integers 0..k-1 (the source mixes "0" and 0, which *)
(*     index the same property).                                           *)
(***************************************************************************)
EXTENDS Integers, Sequences, FiniteSets, TLC

\* ------------------------------------------------------------------ bounds
MaxRooms == 2
MaxPlayers == 2
MaxCreds == 2
\* the number of requests the server is sent in one run
MaxRequests == 5
\* the number of handlers that can be between their fetch and their store
NumProcs == 2
\* the number of requests of a run in which handlers interleave
MaxConcRequests == 4
\* the slots of the room of the team runs
MaxTeamPlayers == 7

\* CreateGame: numPlayers defaults to 2
DefaultNumPlayers == 2

\* ------------------------------------------------------------------ values
Names == {"A", "B"}

\* ctx.request.body.playerID: -1 is "undefined"
NoPlayerID == 0 - 1
\* ctx.request.body.numOfTeams: -1 is "undefined"
NoNumOfTeams == 0 - 1
\* parseInt(ctx.request.body.numPlayers): -1 is NaN (the field is absent or
\* not a number)
NoNumPlayers == 0 - 1

\* lobbyConfig.uuid() / generateCredentials(): fresh values, 0 is "undefined"
NoCredentials == 0
NoRoomID == 0

\* player.data: the caller-defined payload with the role flags, and what
\* CreateTeam / UpdateLeader write into it (data.leader, data.teamData)
NoData ==
  [present |-> FALSE, player |-> FALSE, admin |-> FALSE, leader |-> "unset",
   hasTeamData |-> FALSE, teamID |-> 0, teamLeader |-> FALSE]

PlayerData == [NoData EXCEPT !.present = TRUE, !.player = TRUE]
AdminData  == [NoData EXCEPT !.present = TRUE, !.admin = TRUE]

\* the data payloads a request body carries (NoData: the field is absent)
Payloads == {PlayerData, AdminData}

\* metadata.setupData and the four lists CreateTeam stores in it
NoSetupData ==
  [present |-> FALSE, hasTeams |-> FALSE, teams |-> <<>>, adminsID |-> <<>>,
   playersID |-> <<>>, leadersID |-> <<>>]

EmptySetupData == [NoSetupData EXCEPT !.present = TRUE]

\* Server.GameMetadata; exists = FALSE is what fetch gives for an unknown id
NoMetadata ==
  [exists |-> FALSE, unlisted |-> FALSE, players |-> <<>>,
   setupData |-> NoSetupData, nextRoomID |-> NoRoomID]

\* metadata.players[playerIndex] = { id: playerIndex }
NewPlayer(playerIndex) ==
  [id |-> playerIndex, name |-> "", credentials |-> NoCredentials, data |-> NoData]

RoomIDs == 1..MaxRooms

VARIABLES
  rooms,      \* the store: gameID -> metadata
  nextID,     \* lobbyConfig.uuid(): the next fresh game id
  nextCred,   \* lobbyConfig.generateCredentials(): the next fresh credential
  pending,    \* per request in flight: the handler between fetch and store
  served      \* the number of requests received so far

vars == <<rooms, nextID, nextCred, pending, served>>

\* ------------------------------------------------------------------ helpers
\* Object.keys(metadata.players), in index order
PlayerKeys(metadata) ==
  [i \in 1..Cardinality(DOMAIN metadata.players) |-> i - 1]

\* Object.values(metadata.players).some(player => player.name)
SomeSeated(players) == \E i \in DOMAIN players : players[i].name # ""

\* responses: status is the HTTP status ctx.throw sets, 200 when ctx.body is
\* set, 500 when the handler dies of a TypeError, 0 when the handler returns
\* without setting ctx.body
NoBody == 0

\* What a handler run leaves behind: the response, the store call it ends
\* with (write: "none", "set" = db.setMetadata, "wipe" = db.wipe), the
\* metadata it holds, and the room db.createGame was given (if any).
Outcome(status, body, write, metadata) ==
  [status |-> status, body |-> body, write |-> write, metadata |-> metadata,
   created |-> NoMetadata]

\* ctx.throw(status, ...), or a TypeError (status 500): nothing is stored
Throw(status, metadata) == Outcome(status, NoBody, "none", metadata)

\* ------------------------------------------------------------------ CreateGame
\* the loop of line 46 runs to numPlayers inclusive
CreateGame_OneMore(numPlayers, setupData, unlisted) ==
  LET n == IF numPlayers = NoNumPlayers \/ numPlayers = 0
             THEN DefaultNumPlayers ELSE numPlayers
  IN [exists |-> TRUE,
      unlisted |-> unlisted,
      players |-> [playerIndex \in 0..n |-> NewPlayer(playerIndex)],
      setupData |-> setupData,
      nextRoomID |-> NoRoomID]

\* !numPlayers holds of NaN and of 0
CreateGame(numPlayers, setupData, unlisted) ==
  LET n == IF numPlayers = NoNumPlayers \/ numPlayers = 0
             THEN DefaultNumPlayers ELSE numPlayers
  IN [exists |-> TRUE,
      unlisted |-> unlisted,
      players |-> [playerIndex \in 0..(n - 1) |-> NewPlayer(playerIndex)],
      setupData |-> setupData,
      nextRoomID |-> NoRoomID]

\* ------------------------------------------------------------------ join
\* join without the 409 of line 189: a seated slot is taken over
join_TakesSeat(metadata, playerID, playerName, data, playerCredentials) ==
  IF playerID = NoPlayerID THEN Throw(403, metadata)
  ELSE IF playerName = "" THEN Throw(403, metadata)
  ELSE IF ~metadata.exists THEN Throw(404, metadata)
  ELSE IF playerID \notin DOMAIN metadata.players THEN Throw(404, metadata)
  ELSE
    LET p0 == metadata.players[playerID]
        p1 == IF data.present THEN [p0 EXCEPT !.data = data] ELSE p0
        p2 == [p1 EXCEPT !.name = playerName, !.credentials = playerCredentials]
    IN Outcome(200, playerCredentials, "set",
               [metadata EXCEPT !.players[playerID] = p2])

join(metadata, playerID, playerName, data, playerCredentials) ==
  IF playerID = NoPlayerID THEN Throw(403, metadata)
  ELSE IF playerName = "" THEN Throw(403, metadata)
  ELSE IF ~metadata.exists THEN Throw(404, metadata)
  ELSE IF playerID \notin DOMAIN metadata.players THEN Throw(404, metadata)
  ELSE IF metadata.players[playerID].name # "" THEN Throw(409, metadata)
  ELSE
    LET p0 == metadata.players[playerID]
        p1 == IF data.present THEN [p0 EXCEPT !.data = data] ELSE p0
        p2 == [p1 EXCEPT !.name = playerName, !.credentials = playerCredentials]
    IN Outcome(200, playerCredentials, "set",
               [metadata EXCEPT !.players[playerID] = p2])

\* ------------------------------------------------------------------ leave
\* leave that always ends with db.setMetadata, never with db.wipe
leave_NeverWipes(metadata, playerID, credentials) ==
  IF playerID = NoPlayerID THEN Throw(403, metadata)
  ELSE IF ~metadata.exists THEN Throw(404, metadata)
  ELSE IF playerID \notin DOMAIN metadata.players THEN Throw(404, metadata)
  ELSE IF credentials # metadata.players[playerID].credentials
    THEN Throw(403, metadata)
  ELSE Outcome(200, NoBody, "set",
               [metadata EXCEPT !.players[playerID].name = "",
                                !.players[playerID].credentials = NoCredentials])

leave(metadata, playerID, credentials) ==
  IF playerID = NoPlayerID THEN Throw(403, metadata)
  ELSE IF ~metadata.exists THEN Throw(404, metadata)
  ELSE IF playerID \notin DOMAIN metadata.players THEN Throw(404, metadata)
  ELSE IF credentials # metadata.players[playerID].credentials
    THEN Throw(403, metadata)
  ELSE
    LET m == [metadata EXCEPT !.players[playerID].name = "",
                              !.players[playerID].credentials = NoCredentials]
    IN IF SomeSeated(m.players)
         THEN Outcome(200, NoBody, "set", m)
         ELSE Outcome(200, NoBody, "wipe", m)

\* ------------------------------------------------------------------ playAgain
\* playAgain without the early return of lines 264-267
playAgain_AlwaysCreates(metadata, playerID, credentials, setupData, numPlayers, unlisted, nextRoomID) ==
  IF playerID = NoPlayerID THEN Throw(403, metadata)
  ELSE IF ~metadata.exists THEN Throw(404, metadata)
  ELSE IF playerID \notin DOMAIN metadata.players THEN Throw(404, metadata)
  ELSE IF credentials # metadata.players[playerID].credentials
    THEN Throw(403, metadata)
  ELSE
    [Outcome(200, nextRoomID, "set", [metadata EXCEPT !.nextRoomID = nextRoomID])
       EXCEPT !.created =
         [exists |-> TRUE, unlisted |-> unlisted,
          players |-> [playerIndex \in DOMAIN metadata.players |->
                         [id |-> playerIndex, name |-> "",
                          credentials |-> NoCredentials, data |-> NoData]],
          setupData |-> metadata.setupData, nextRoomID |-> NoRoomID]]

\* parseInt(body.numPlayers) || Object.keys(metadata.players).length: NaN and
\* 0 are falsy; setupData not present: body.setupData is missing
playAgain(metadata, playerID, credentials, setupData, numPlayers, unlisted, nextRoomID) ==
  IF playerID = NoPlayerID THEN Throw(403, metadata)
  ELSE IF ~metadata.exists THEN Throw(404, metadata)
  ELSE IF playerID \notin DOMAIN metadata.players THEN Throw(404, metadata)
  ELSE IF credentials # metadata.players[playerID].credentials
    THEN Throw(403, metadata)
  ELSE IF metadata.nextRoomID # NoRoomID
    THEN Outcome(200, metadata.nextRoomID, "none", metadata)
  ELSE
    LET sd == IF setupData.present THEN setupData ELSE metadata.setupData
        np == IF numPlayers # NoNumPlayers /\ numPlayers # 0 THEN numPlayers
              ELSE Len(PlayerKeys(metadata))
    IN [Outcome(200, nextRoomID, "set",
                [metadata EXCEPT !.nextRoomID = nextRoomID])
          EXCEPT !.created = CreateGame(np, sd, unlisted)]

\* ------------------------------------------------------------------ update
\* update without the credential check of lines 318-320
updatePlayerMetadata_NoCheck(metadata, playerID, credentials, newName, data) ==
  IF playerID = NoPlayerID THEN Throw(403, metadata)
  ELSE IF ~data.present /\ newName = "" THEN Throw(403, metadata)
  ELSE IF ~metadata.exists THEN Throw(404, metadata)
  ELSE IF playerID \notin DOMAIN metadata.players THEN Throw(404, metadata)
  ELSE
    LET p0 == metadata.players[playerID]
        p1 == IF newName # "" THEN [p0 EXCEPT !.name = newName] ELSE p0
        p2 == IF data.present THEN [p1 EXCEPT !.data = data] ELSE p1
    IN Outcome(200, NoBody, "set", [metadata EXCEPT !.players[playerID] = p2])

\* newName = "": body.newName is missing; data not present: body.data is missing
updatePlayerMetadata(metadata, playerID, credentials, newName, data) ==
  IF playerID = NoPlayerID THEN Throw(403, metadata)
  ELSE IF ~data.present /\ newName = "" THEN Throw(403, metadata)
  ELSE IF ~metadata.exists THEN Throw(404, metadata)
  ELSE IF playerID \notin DOMAIN metadata.players THEN Throw(404, metadata)
  ELSE IF credentials # metadata.players[playerID].credentials
    THEN Throw(403, metadata)
  ELSE
    LET p0 == metadata.players[playerID]
        p1 == IF newName # "" THEN [p0 EXCEPT !.name = newName] ELSE p0
        p2 == IF data.present THEN [p1 EXCEPT !.data = data] ELSE p1
    IN Outcome(200, NoBody, "set", [metadata EXCEPT !.players[playerID] = p2])

\* ------------------------------------------------------------------ rejoin
\* playerID_array.find(id => metadata.players[id].name === playerName):
\* the first slot of that name, -1 when there is none
FindByName(metadata, playerName) ==
  LET hits == {i \in DOMAIN metadata.players :
                 metadata.players[i].name = playerName}
  IN IF hits = {} THEN NoPlayerID
     ELSE CHOOSE i \in hits : \A j \in hits : i <= j

RejoinGame(metadata, playerName, credentials) ==
  IF playerName = "" THEN Throw(403, metadata)
  ELSE IF ~metadata.exists THEN Throw(404, metadata)
  ELSE
    LET playerID == FindByName(metadata, playerName)
    IN IF playerID = NoPlayerID THEN Throw(409, metadata)
       ELSE IF credentials # metadata.players[playerID].credentials
         THEN Throw(403, metadata)
       ELSE Outcome(200, NoBody, "set", metadata)

\* ------------------------------------------------------------------ GetRoom
\* const { credentials, ...strippedInfo } = player
Stripped(player) == [id |-> player.id, name |-> player.name, data |-> player.data]

GetRoomHandler(metadata, gameID) ==
  IF ~metadata.exists THEN Throw(404, metadata)
  ELSE Outcome(200,
               [roomID |-> gameID,
                players |-> [i \in DOMAIN metadata.players |->
                               Stripped(metadata.players[i])],
                setupData |-> metadata.setupData],
               "none", metadata)

\* ------------------------------------------------------------------ CreateTeam
\* the players whose data carries the flag, in Object.keys order
FlaggedPlayer(metadata) ==
  SelectSeq(PlayerKeys(metadata), LAMBDA id : metadata.players[id].data.player)

FlaggedAdmin(metadata) ==
  SelectSeq(PlayerKeys(metadata), LAMBDA id : metadata.players[id].data.admin)

\* One player put into team teamID at the cursor acc.playerID: the admin
\* check that steps the cursor once, then teamData / leader = false on the
\* slot under the cursor.  Reading a slot that does not exist is the
\* TypeError that ends the handler (ok = FALSE).
AssignNext(acc, teamID) ==
  IF ~acc.ok THEN acc
  ELSE IF acc.playerID \notin DOMAIN acc.players THEN [acc EXCEPT !.ok = FALSE]
  ELSE
    LET isAdmin == acc.players[acc.playerID].data.admin
        p1 == IF isAdmin
                THEN [acc.players EXCEPT ![acc.playerID].data.leader = "false"]
                ELSE acc.players
        cur == IF isAdmin THEN acc.playerID + 1 ELSE acc.playerID
    IN IF cur \notin DOMAIN p1 THEN [acc EXCEPT !.ok = FALSE]
       ELSE [acc EXCEPT
               !.players = [p1 EXCEPT ![cur].data.hasTeamData = TRUE,
                                      ![cur].data.teamID = teamID,
                                      ![cur].data.teamLeader = FALSE,
                                      ![cur].data.leader = "false"],
               !.tmp = Append(acc.tmp, cur),
               !.playerID = cur + 1]

\* for (let id = 0; id < playersInTeam; id++)
RECURSIVE FillTeam(_, _, _)
FillTeam(acc, teamID, count) ==
  IF count <= 0 \/ ~acc.ok THEN acc
  ELSE FillTeam(AssignNext(acc, teamID), teamID, count - 1)

\* for (teamID; teamID < numOfTeams; teamID++): fill, then flag the first
\* player of the team as its leader
RECURSIVE TeamLoop(_, _, _, _)
TeamLoop(acc, teamID, numOfTeams, playersInTeam) ==
  IF ~acc.ok \/ teamID >= numOfTeams THEN acc
  ELSE
    LET a1 == FillTeam([acc EXCEPT !.tmp = <<>>], teamID, playersInTeam)
    IN IF ~a1.ok THEN a1
       ELSE IF a1.tmp = <<>> THEN [a1 EXCEPT !.ok = FALSE]
       ELSE
         LET id_leader == a1.tmp[1]
             a2 == [a1 EXCEPT
                      !.players[id_leader].data.teamLeader = TRUE,
                      !.players[id_leader].data.leader = "true",
                      !.leaders = Append(a1.leaders, id_leader),
                      !.teams = Append(a1.teams,
                                       [teamID |-> teamID, playersID |-> a1.tmp])]
         IN TeamLoop(a2, teamID + 1, numOfTeams, playersInTeam)

\* for (let id = 0; id < numOfReminder; id++): one more player for the teams
\* 0, 1, ...; teams.find gives the team at index teamID + 1 of the sequence
RECURSIVE ReminderLoop(_, _, _)
ReminderLoop(acc, teamID, numOfReminder) ==
  IF ~acc.ok \/ teamID >= numOfReminder THEN acc
  ELSE
    LET a1 == AssignNext([acc EXCEPT !.tmp = <<>>], teamID)
    IN IF ~a1.ok THEN a1
       ELSE ReminderLoop(
              [a1 EXCEPT !.teams[teamID + 1].playersID = Append(@, a1.tmp[1])],
              teamID + 1, numOfReminder)

\* CreateTeam with Math.ceil for the Math.floor of line 372
CreateTeam_CeilPerTeam(metadata, numOfTeams) ==
  IF numOfTeams = NoNumOfTeams THEN Throw(403, metadata)
  ELSE IF ~metadata.exists THEN Throw(404, metadata)
  ELSE IF \E id \in DOMAIN metadata.players : ~metadata.players[id].data.present
    THEN Throw(500, metadata)
  ELSE
    LET playerArray == FlaggedPlayer(metadata)
        numPlayer == Len(playerArray)
        start == [players |-> metadata.players,
                  playerID |-> IF numPlayer > 0 THEN playerArray[1] ELSE NoPlayerID,
                  tmp |-> <<>>, teams |-> <<>>, leaders |-> <<>>, ok |-> TRUE]
        a1 == TeamLoop(start, 0, numOfTeams,
                       (numPlayer + numOfTeams - 1) \div numOfTeams)
        a2 == ReminderLoop(a1, 0, numPlayer % numOfTeams)
    IN IF ~a2.ok THEN Throw(500, metadata)
       ELSE Outcome(200, a2.teams, "set",
                    [metadata EXCEPT !.players = a2.players])

\* CreateTeam whose assignments reach the store although the handler dies
\* half way (the loops write into the stored record, not into a copy)
CreateTeam_StoresThenFails(metadata, numOfTeams) ==
  IF numOfTeams = NoNumOfTeams THEN Throw(403, metadata)
  ELSE IF ~metadata.exists THEN Throw(404, metadata)
  ELSE IF \E id \in DOMAIN metadata.players : ~metadata.players[id].data.present
    THEN Throw(500, metadata)
  ELSE
    LET playerArray == FlaggedPlayer(metadata)
        numPlayer == Len(playerArray)
        start == [players |-> metadata.players,
                  playerID |-> IF numPlayer > 0 THEN playerArray[1] ELSE NoPlayerID,
                  tmp |-> <<>>, teams |-> <<>>, leaders |-> <<>>, ok |-> TRUE]
        a1 == TeamLoop(start, 0, numOfTeams, numPlayer \div numOfTeams)
        a2 == ReminderLoop(a1, 0, numPlayer % numOfTeams)
    IN IF ~a2.ok
         THEN Outcome(500, NoBody, "set", [metadata EXCEPT !.players = a2.players])
         ELSE Outcome(200, a2.teams, "set",
                      [metadata EXCEPT !.players = a2.players])

CreateTeam(metadata, numOfTeams) ==
  IF numOfTeams = NoNumOfTeams THEN Throw(403, metadata)
  ELSE IF ~metadata.exists THEN Throw(404, metadata)
  ELSE IF \E id \in DOMAIN metadata.players : ~metadata.players[id].data.present
    THEN Throw(500, metadata)
  ELSE
    LET playerArray == FlaggedPlayer(metadata)
        adminArray == FlaggedAdmin(metadata)
        numPlayer == Len(playerArray)
        playersInTeam == numPlayer \div numOfTeams
        numOfReminder == numPlayer % numOfTeams
        start == [players |-> metadata.players,
                  playerID |-> IF numPlayer > 0 THEN playerArray[1] ELSE NoPlayerID,
                  tmp |-> <<>>, teams |-> <<>>, leaders |-> <<>>, ok |-> TRUE]
        a1 == TeamLoop(start, 0, numOfTeams, playersInTeam)
        a2 == ReminderLoop(a1, 0, numOfReminder)
        sd == IF metadata.setupData.present
                THEN [metadata.setupData EXCEPT
                        !.hasTeams = TRUE, !.teams = a2.teams,
                        !.adminsID = adminArray, !.playersID = playerArray,
                        !.leadersID = a2.leaders]
                ELSE metadata.setupData
    IN IF ~a2.ok THEN Throw(500, metadata)
       ELSE Outcome(200, a2.teams, "set",
                    [metadata EXCEPT !.players = a2.players, !.setupData = sd])

\* ------------------------------------------------------------------ UpdateLeader
\* the scan of lines 479-489: the (last) slot of the team flagged leader, -1
\* for '' when there is none, and the other slots of the team
OldLeader(metadata, teamID) ==
  LET hits == {id \in DOMAIN metadata.players :
                 /\ metadata.players[id].data.hasTeamData
                 /\ metadata.players[id].data.teamID = teamID
                 /\ metadata.players[id].data.teamLeader}
  IN IF hits = {} THEN NoPlayerID
     ELSE CHOOSE id \in hits : \A j \in hits : j <= id

Others(metadata, teamID) ==
  {id \in DOMAIN metadata.players :
     /\ metadata.players[id].data.hasTeamData
     /\ metadata.players[id].data.teamID = teamID
     /\ ~metadata.players[id].data.teamLeader}

\* leadersID_array[index_old] = playerID_newLeader, at the first index of old
ReplaceFirst(seq, old, new) ==
  LET at == {i \in 1..Len(seq) : seq[i] = old}
  IN IF at = {} THEN seq
     ELSE [seq EXCEPT ![CHOOSE i \in at : \A j \in at : i <= j] = new]

\* playerID_newLeader is the element of playerID_others that Math.random picks
UpdateLeader(metadata, teamID, playerID_newLeader) ==
  IF ~metadata.exists THEN Throw(404, metadata)
  ELSE IF metadata.setupData.present /\ ~metadata.setupData.hasTeams
    THEN Throw(500, metadata)
  ELSE IF /\ metadata.setupData.present
          /\ \A i \in 1..Len(metadata.setupData.teams) :
                metadata.setupData.teams[i].teamID # teamID
    THEN Throw(404, metadata)
  ELSE IF \E id \in DOMAIN metadata.players : ~metadata.players[id].data.present
    THEN Throw(500, metadata)
  ELSE IF Others(metadata, teamID) = {}
    THEN Outcome(0, NoBody, "none", metadata)
  ELSE
    LET playerID_oldLeader == OldLeader(metadata, teamID)
    IN IF playerID_oldLeader = NoPlayerID THEN Throw(500, metadata)
       ELSE IF ~metadata.setupData.present THEN Throw(500, metadata)
       ELSE
         LET leadersID_array ==
               ReplaceFirst(metadata.setupData.leadersID,
                            playerID_oldLeader, playerID_newLeader)
             m == [metadata EXCEPT
                     !.players[playerID_newLeader].data.teamLeader = TRUE,
                     !.players[playerID_newLeader].data.leader = "true",
                     !.players[playerID_oldLeader].data.teamLeader = FALSE,
                     !.players[playerID_oldLeader].data.leader = "false",
                     !.setupData.leadersID = leadersID_array]
         IN Outcome(200,
                    [playerName_newLeader |-> m.players[playerID_newLeader].name,
                     playerID_newLeader |-> playerID_newLeader,
                     new_leadersID |-> leadersID_array,
                     new_players |-> m.players],
                    "set", m)

\* ------------------------------------------------------------------ ListRooms
\* lines 127-147: the rooms that are not unlisted, credentials stripped
ListRoomsBody(store) ==
  {[gameID |-> gameID,
    players |-> [i \in DOMAIN store[gameID].players |->
                   Stripped(store[gameID].players[i])],
    setupData |-> store[gameID].setupData] :
     gameID \in {g \in RoomIDs : store[g].exists /\ ~store[g].unlisted}}

\* ------------------------------------------------------------------ the store
\* db.fetch(gameID, {metadata: true})
Fetch(store, gameID) == store[gameID]

\* the store call a handler run ends with, applied to the store
Apply(store, gameID, o) ==
  IF o.write = "set" THEN [store EXCEPT ![gameID] = o.metadata]
  ELSE IF o.write = "wipe" THEN [store EXCEPT ![gameID] = NoMetadata]
  ELSE store

\* db.createGame(gameID, {metadata, initialState})
Created(store, gameID, o) ==
  IF o.created.exists THEN [store EXCEPT ![gameID] = o.created] ELSE store

\* ------------------------------------------------------------------ requests
PlayerIDs == (0..(MaxPlayers - 1)) \cup {NoPlayerID}
Credentials == 0..MaxCreds
NumPlayersArgs == (0..MaxPlayers) \cup {NoNumPlayers}
NumOfTeamsArgs == (1..MaxPlayers) \cup {NoNumOfTeams}
TeamIDs == 0..(MaxPlayers - 1)
SetupDataArgs == {NoSetupData, EmptySetupData}
\* body.unlisted: the rooms of a run are listed
UnlistedArgs == {FALSE}
NameArgs == Names \cup {""}
DataArgs == Payloads \cup {NoData}

Idle == [op |-> "idle"]

Init ==
  /\ rooms = [gameID \in RoomIDs |-> NoMetadata]
  /\ nextID = 1
  /\ nextCred = 1
  /\ pending = [p \in 1..NumProcs |-> Idle]
  /\ served = 0

\* a request arrives
Receive == served < MaxRequests /\ served' = served + 1

\* POST /games/:name/create; known: games.find(g => g.name === gameName)
CreateRoom(known, numPlayers, setupData, unlisted) ==
  /\ Receive
  /\ known => nextID <= MaxRooms
  /\ IF known
       THEN /\ rooms' = [rooms EXCEPT
                           ![nextID] = CreateGame(numPlayers, setupData, unlisted)]
            /\ nextID' = nextID + 1
       ELSE UNCHANGED <<rooms, nextID>>
  /\ UNCHANGED <<nextCred, pending>>

\* GET /games/:name and GET /games/:name/:id store nothing
ListRooms ==
  /\ Receive
  /\ UNCHANGED <<rooms, nextID, nextCred, pending>>

GetRoom(gameID) ==
  /\ Receive
  /\ UNCHANGED <<rooms, nextID, nextCred, pending>>

\* POST /games/:name/:id/join
JoinRoom(gameID, playerID, playerName, data) ==
  LET o == join(Fetch(rooms, gameID), playerID, playerName, data, nextCred)
  IN /\ Receive
     /\ o.status = 200 => nextCred <= MaxCreds
     /\ rooms' = Apply(rooms, gameID, o)
     /\ nextCred' = IF o.status = 200 THEN nextCred + 1 ELSE nextCred
     /\ UNCHANGED <<nextID, pending>>

\* POST /games/:name/:id/leave
LeaveRoom(gameID, playerID, credentials) ==
  LET o == leave(Fetch(rooms, gameID), playerID, credentials)
  IN /\ Receive
     /\ rooms' = Apply(rooms, gameID, o)
     /\ UNCHANGED <<nextID, nextCred, pending>>

\* POST /games/:name/:id/playAgain
RequestSuccessor(gameID, playerID, credentials, setupData, numPlayers, unlisted) ==
  LET o == playAgain(Fetch(rooms, gameID), playerID, credentials, setupData,
                     numPlayers, unlisted, nextID)
  IN /\ Receive
     /\ o.created.exists => nextID <= MaxRooms
     /\ rooms' = Apply(Created(rooms, nextID, o), gameID, o)
     /\ nextID' = IF o.created.exists THEN nextID + 1 ELSE nextID
     /\ UNCHANGED <<nextCred, pending>>

\* POST /games/:name/:id/update (and /rename)
UpdatePlayer(gameID, playerID, credentials, newName, data) ==
  LET o == updatePlayerMetadata(Fetch(rooms, gameID), playerID, credentials,
                                newName, data)
  IN /\ Receive
     /\ rooms' = Apply(rooms, gameID, o)
     /\ UNCHANGED <<nextID, nextCred, pending>>

\* POST /games/:name/:id/rejoin
RejoinRoom(gameID, playerName, credentials) ==
  LET o == RejoinGame(Fetch(rooms, gameID), playerName, credentials)
  IN /\ Receive
     /\ rooms' = Apply(rooms, gameID, o)
     /\ UNCHANGED <<nextID, nextCred, pending>>

\* POST /games/:name/:id/teams/create
FormTeams(gameID, numOfTeams) ==
  LET o == CreateTeam(Fetch(rooms, gameID), numOfTeams)
  IN /\ Receive
     /\ rooms' = Apply(rooms, gameID, o)
     /\ UNCHANGED <<nextID, nextCred, pending>>

\* what Math.random can pick in UpdateLeader: a slot of playerID_others
\* (-1 when the handler does not get that far)
NewLeaders(metadata, teamID) ==
  IF metadata.exists /\ Others(metadata, teamID) # {}
    THEN Others(metadata, teamID) ELSE {NoPlayerID}

\* POST /games/:name/:id/teams/update/leader/:team
RotateLeader(gameID, teamID, playerID_newLeader) ==
  LET o == UpdateLeader(Fetch(rooms, gameID), teamID, playerID_newLeader)
  IN /\ Receive
     /\ playerID_newLeader \in NewLeaders(Fetch(rooms, gameID), teamID)
     /\ rooms' = Apply(rooms, gameID, o)
     /\ UNCHANGED <<nextID, nextCred, pending>>

\* the credential check of leave / playAgain / update passes
Authorized(gameID, playerID, credentials) ==
  /\ rooms[gameID].exists
  /\ playerID \in DOMAIN rooms[gameID].players
  /\ credentials = rooms[gameID].players[playerID].credentials

\* The requests of a run.  A request that is turned away before its body is
\* read is sent with one body, not with every body.
Next ==
  \/ \E numPlayers \in NumPlayersArgs, setupData \in SetupDataArgs,
        unlisted \in UnlistedArgs :
       CreateRoom(TRUE, numPlayers, setupData, unlisted)
  \/ CreateRoom(FALSE, NoNumPlayers, NoSetupData, FALSE)
  \/ ListRooms
  \/ \E gameID \in RoomIDs : GetRoom(gameID)
  \/ \E gameID \in RoomIDs, playerID \in PlayerIDs,
        playerName \in NameArgs, data \in DataArgs :
       JoinRoom(gameID, playerID, playerName, data)
  \/ \E gameID \in RoomIDs, playerID \in PlayerIDs, credentials \in Credentials :
       LeaveRoom(gameID, playerID, credentials)
  \/ \E gameID \in RoomIDs, playerID \in PlayerIDs, credentials \in Credentials,
        setupData \in SetupDataArgs, numPlayers \in NumPlayersArgs,
        unlisted \in UnlistedArgs :
       /\ \/ Authorized(gameID, playerID, credentials)
          \/ (setupData = NoSetupData /\ numPlayers = NoNumPlayers /\ ~unlisted)
       /\ RequestSuccessor(gameID, playerID, credentials, setupData,
                           numPlayers, unlisted)
  \/ \E gameID \in RoomIDs, playerID \in PlayerIDs, credentials \in Credentials,
        newName \in NameArgs, data \in DataArgs :
       /\ \/ Authorized(gameID, playerID, credentials)
          \/ (newName = "" /\ data \in {NoData, PlayerData})
       /\ UpdatePlayer(gameID, playerID, credentials, newName, data)
  \/ \E gameID \in RoomIDs, playerName \in NameArgs,
        credentials \in Credentials :
       RejoinRoom(gameID, playerName, credentials)
  \/ \E gameID \in RoomIDs, numOfTeams \in NumOfTeamsArgs :
       FormTeams(gameID, numOfTeams)
  \/ \E gameID \in RoomIDs, teamID \in TeamIDs,
        playerID_newLeader \in PlayerIDs :
       RotateLeader(gameID, teamID, playerID_newLeader)

Spec == Init /\ [][Next]_vars

\* ------------------------------------------------------------------ interleaving
\* Every handler awaits db.fetch, and later db.setMetadata / db.wipe
\* (playAgain: db.createGame in between); at each await another request may
\* run.  A request in flight keeps the metadata it fetched.
Request(op, gameID, playerID, credentials, playerName, data, numOfTeams, teamID) ==
  [op |-> op, gameID |-> gameID, playerID |-> playerID,
   credentials |-> credentials, playerName |-> playerName, data |-> data,
   numOfTeams |-> numOfTeams, teamID |-> teamID,
   metadata |-> Fetch(rooms, gameID), created |-> NoRoomID]

\* the handler run on the record that is in the store when it gets to its
\* store call, not on the record it fetched
Handle_Refetch(req, freshCred, freshID) ==
  LET now == Fetch(rooms, req.gameID)
  IN CASE req.op = "join" ->
            join(now, req.playerID, req.playerName, req.data, freshCred)
       [] req.op = "leave" -> leave(now, req.playerID, req.credentials)
       [] req.op = "playAgain" ->
            playAgain(now, req.playerID, req.credentials, NoSetupData,
                      NoNumPlayers, FALSE, freshID)
       [] req.op = "update" ->
            updatePlayerMetadata(now, req.playerID, req.credentials,
                                 req.playerName, req.data)
       [] req.op = "rejoin" -> RejoinGame(now, req.playerName, req.credentials)
       [] req.op = "teams" -> CreateTeam(now, req.numOfTeams)
       [] req.op = "leader" -> UpdateLeader(now, req.teamID, req.playerID)

\* the handler of a request in flight, run on the metadata it fetched; a
\* playAgain in flight is sent without setupData, numPlayers and unlisted
Handle(req, freshCred, freshID) ==
  CASE req.op = "join" ->
         join(req.metadata, req.playerID, req.playerName, req.data, freshCred)
    [] req.op = "leave" -> leave(req.metadata, req.playerID, req.credentials)
    [] req.op = "playAgain" ->
         playAgain(req.metadata, req.playerID, req.credentials, NoSetupData,
                   NoNumPlayers, FALSE, freshID)
    [] req.op = "update" ->
         updatePlayerMetadata(req.metadata, req.playerID, req.credentials,
                              req.playerName, req.data)
    [] req.op = "rejoin" ->
         RejoinGame(req.metadata, req.playerName, req.credentials)
    [] req.op = "teams" -> CreateTeam(req.metadata, req.numOfTeams)
    [] req.op = "leader" -> UpdateLeader(req.metadata, req.teamID, req.playerID)

\* The handler of process p runs up to its first await, db.fetch.  A request
\* that the fetched metadata turns away, or answers without a store call,
\* has no later step that touches the store: it ends here.
Begin(p, req) ==
  LET o == Handle(req, nextCred, nextID)
  IN /\ pending[p] = Idle
     /\ \A q \in 1..(p - 1) : pending[q] # Idle
     /\ served < MaxConcRequests
     /\ Receive
     /\ pending' = IF o.write = "none" THEN pending
                    ELSE [pending EXCEPT ![p] = req]
     /\ UNCHANGED <<rooms, nextID, nextCred>>

BeginJoin(p, gameID, playerID, playerName, data) ==
  Begin(p, Request("join", gameID, playerID, 0, playerName, data, 0, 0))

BeginLeave(p, gameID, playerID, credentials) ==
  Begin(p, Request("leave", gameID, playerID, credentials, "", NoData, 0, 0))

BeginSuccessor(p, gameID, playerID, credentials) ==
  Begin(p, Request("playAgain", gameID, playerID, credentials, "", NoData, 0, 0))

BeginUpdate(p, gameID, playerID, credentials, newName, data) ==
  Begin(p, Request("update", gameID, playerID, credentials, newName, data, 0, 0))

BeginRejoin(p, gameID, playerName, credentials) ==
  Begin(p, Request("rejoin", gameID, 0, credentials, playerName, NoData, 0, 0))

BeginTeams(p, gameID, numOfTeams) ==
  Begin(p, Request("teams", gameID, 0, 0, "", NoData, numOfTeams, 0))

BeginLeader(p, gameID, teamID, playerID_newLeader) ==
  /\ playerID_newLeader \in NewLeaders(Fetch(rooms, gameID), teamID)
  /\ Begin(p, Request("leader", gameID, playerID_newLeader, 0, "", NoData, 0,
                      teamID))

\* playAgain, second await: CreateGame draws the id and db.createGame
\* stores the successor room
CreateSuccessor(p) ==
  LET req == pending[p]
      o == Handle(req, nextCred, nextID)
  IN /\ req # Idle
     /\ req.created = NoRoomID
     /\ o.created.exists
     /\ nextID <= MaxRooms
     /\ rooms' = Created(rooms, nextID, o)
     /\ nextID' = nextID + 1
     /\ pending' = [pending EXCEPT ![p].created = nextID]
     /\ UNCHANGED <<nextCred, served>>

\* the last await of a handler: db.setMetadata or db.wipe with the metadata
\* the handler holds (or no store call, for a request that is turned away)
Finish(p) ==
  LET req == pending[p]
      o == Handle(req, nextCred, req.created)
  IN /\ req # Idle
     /\ o.created.exists => req.created # NoRoomID
     /\ (req.op = "join" /\ o.status = 200) => nextCred <= MaxCreds
     /\ rooms' = Apply(rooms, req.gameID, o)
     /\ nextCred' = IF req.op = "join" /\ o.status = 200
                      THEN nextCred + 1 ELSE nextCred
     /\ pending' = [pending EXCEPT ![p] = Idle]
     /\ UNCHANGED <<nextID, served>>

Procs == 1..NumProcs

\* the request bodies of the interleaved runs: rooms of the default size,
\* one player name, the player payload or none
ConcNames == {"A"}
ConcData == {NoData, PlayerData}

NextConc ==
  \/ \E setupData \in SetupDataArgs :
       /\ \A p \in Procs : pending[p] = Idle
       /\ served < MaxConcRequests
       /\ CreateRoom(TRUE, NoNumPlayers, setupData, FALSE)
  \/ \E p \in Procs, gameID \in RoomIDs, playerID \in PlayerIDs,
        playerName \in ConcNames, data \in ConcData :
       BeginJoin(p, gameID, playerID, playerName, data)
  \/ \E p \in Procs, gameID \in RoomIDs, playerID \in PlayerIDs,
        credentials \in Credentials :
       BeginLeave(p, gameID, playerID, credentials)
  \/ \E p \in Procs, gameID \in RoomIDs, playerID \in PlayerIDs,
        credentials \in Credentials :
       BeginSuccessor(p, gameID, playerID, credentials)
  \/ \E p \in Procs, gameID \in RoomIDs, playerID \in PlayerIDs,
        credentials \in Credentials, newName \in ConcNames \cup {""},
        data \in ConcData :
       BeginUpdate(p, gameID, playerID, credentials, newName, data)
  \/ \E p \in Procs, gameID \in RoomIDs, playerName \in ConcNames,
        credentials \in Credentials :
       BeginRejoin(p, gameID, playerName, credentials)
  \/ \E p \in Procs, gameID \in RoomIDs, numOfTeams \in NumOfTeamsArgs :
       BeginTeams(p, gameID, numOfTeams)
  \/ \E p \in Procs, gameID \in RoomIDs, teamID \in TeamIDs,
        playerID_newLeader \in PlayerIDs :
       BeginLeader(p, gameID, teamID, playerID_newLeader)
  \/ \E p \in Procs : CreateSuccessor(p)
  \/ \E p \in Procs : Finish(p)

SpecConc == Init /\ [][NextConc]_vars

\* ------------------------------------------------------------------ team runs
\* Runs on one room of 1..MaxTeamPlayers slots that have all been joined
\* with the player payload (CreateRoom and one JoinRoom per slot have run):
\* teams are formed, formed again and their leaders rotated.
TeamSlots == 0..(MaxTeamPlayers - 1)

FullRoom(n, setupData) ==
  [exists |-> TRUE, unlisted |-> FALSE,
   players |-> [i \in 0..(n - 1) |->
                  [id |-> i, name |-> "A", credentials |-> i + 1,
                   data |-> PlayerData]],
   setupData |-> setupData, nextRoomID |-> NoRoomID]

InitTeams ==
  /\ \E n \in 1..MaxTeamPlayers, setupData \in SetupDataArgs :
       rooms = [gameID \in RoomIDs |->
                  IF gameID = 1 THEN FullRoom(n, setupData) ELSE NoMetadata]
  /\ nextID = 2
  /\ nextCred = 1 + Cardinality(DOMAIN rooms[1].players)
  /\ pending = [p \in 1..NumProcs |-> Idle]
  /\ served = 0

NextTeams ==
  \/ \E numOfTeams \in 1..MaxTeamPlayers : FormTeams(1, numOfTeams)
  \/ \E teamID \in TeamSlots, playerID_newLeader \in TeamSlots \cup {NoPlayerID} :
       RotateLeader(1, teamID, playerID_newLeader)

SpecTeams == InitTeams /\ [][NextTeams]_vars

\* ------------------------------------------------------------------ claims
\* the slots of a stored room
Slots(gameID) == DOMAIN rooms[gameID].players

Seated(metadata, playerID) == metadata.players[playerID].name # ""

\* C1: in every stored room, every slot has credentials if and only if it
\* has a name.
C1_SeatedInvariant ==
  \A gameID \in RoomIDs : \A playerID \in Slots(gameID) :
    (rooms[gameID].players[playerID].credentials # NoCredentials)
      <=> Seated(rooms[gameID], playerID)

\* C2: a join on an open slot returns the credentials it stores on the slot;
\* a join on a slot that has a name is answered 409 and stores nothing; and
\* a slot that has a name keeps one, in a room that stays in the store, in
\* every step that is not a leave of that slot with the stored credentials.
C2_JoinAnswers ==
  \A gameID \in RoomIDs : \A playerID \in Slots(gameID) :
    \A playerName \in Names, data \in DataArgs :
      LET m == rooms[gameID]
          o == join(m, playerID, playerName, data, nextCred)
      IN IF Seated(m, playerID)
           THEN o = Throw(409, m)
           ELSE /\ o.status = 200 /\ o.write = "set"
                /\ o.body = nextCred
                /\ o.metadata.players[playerID].credentials = o.body
                /\ o.metadata.players[playerID].name = playerName

C2_SeatKept ==
  \A gameID \in RoomIDs : \A playerID \in Slots(gameID) :
    (/\ Seated(rooms[gameID], playerID)
     /\ ~LeaveRoom(gameID, playerID, rooms[gameID].players[playerID].credentials))
    => /\ rooms'[gameID].exists
       /\ Seated(rooms'[gameID], playerID)

C2_SecondJoinConflicts == [](C2_JoinAnswers) /\ [][C2_SeatKept]_vars

\* a slot is seated with credentials and a join under another name is
\* answered 409
C2_Witness ==
  \E gameID \in RoomIDs : \E playerID \in Slots(gameID) :
    /\ rooms[gameID].players[playerID].name = "A"
    /\ rooms[gameID].players[playerID].credentials # NoCredentials
    /\ join(rooms[gameID], playerID, "B", PlayerData, nextCred).status = 409

\* C3: on a stored room and one of its slots, a leave, update or playAgain
\* that presents a credential other than the one stored on the slot, and a
\* rejoin under the slot's name that does, is answered 403 whatever its other
\* fields are, makes no store call and creates no room.
C3_WrongCredentialRejected ==
  \A gameID \in RoomIDs : \A playerID \in Slots(gameID) :
    \A credentials \in Credentials :
      LET m == rooms[gameID]
      IN credentials # m.players[playerID].credentials =>
           /\ leave(m, playerID, credentials) = Throw(403, m)
           /\ \A newName \in NameArgs, data \in DataArgs :
                updatePlayerMetadata(m, playerID, credentials, newName, data)
                  = Throw(403, m)
           /\ \A setupData \in SetupDataArgs, numPlayers \in NumPlayersArgs,
                 unlisted \in BOOLEAN :
                playAgain(m, playerID, credentials, setupData, numPlayers,
                          unlisted, nextID) = Throw(403, m)
           /\ \A playerName \in Names :
                FindByName(m, playerName) = playerID =>
                  RejoinGame(m, playerName, credentials) = Throw(403, m)

\* two slots of a room hold credentials, so that a request on one can present
\* the credential of the other
C3_Witness ==
  \E gameID \in RoomIDs : \E p, q \in Slots(gameID) :
    /\ p # q
    /\ rooms[gameID].players[p].credentials # NoCredentials
    /\ rooms[gameID].players[q].credentials # NoCredentials
    /\ leave(rooms[gameID], p, rooms[gameID].players[q].credentials).status = 403

\* C4: a playAgain that passes the credential check on a room without
\* nextRoomID stores the fresh id it returns as the room's nextRoomID; on a
\* room with nextRoomID it returns that id, creates no room and makes no
\* store call, whatever slot and arguments it is sent with.  So the second
\* of two requests that run one after the other returns the id of the first.
C4_SuccessorIdempotent ==
  \A gameID \in RoomIDs : \A playerID \in Slots(gameID) :
    \A setupData \in SetupDataArgs, numPlayers \in NumPlayersArgs,
       unlisted \in BOOLEAN :
      LET m == rooms[gameID]
          o == playAgain(m, playerID, m.players[playerID].credentials,
                         setupData, numPlayers, unlisted, nextID)
          after == Apply(Created(rooms, nextID, o), gameID, o)[gameID]
      IN IF m.nextRoomID # NoRoomID
           THEN o = Outcome(200, m.nextRoomID, "none", m)
           ELSE /\ o.status = 200 /\ o.body = nextID /\ o.created.exists
                /\ after.nextRoomID = o.body
                /\ \A second \in DOMAIN after.players :
                     playAgain(after, second, after.players[second].credentials,
                               NoSetupData, NoNumPlayers, ~unlisted, nextID + 1)
                       = Outcome(200, o.body, "none", after)

\* a room points to its successor, which is in the store
C4_Witness ==
  \E gameID \in RoomIDs :
    /\ rooms[gameID].exists
    /\ rooms[gameID].nextRoomID # NoRoomID
    /\ rooms[rooms[gameID].nextRoomID].exists

\* C5: once a stored room has nextRoomID = r, every later stored state of
\* the room has nextRoomID = r, and a playAgain that ends successfully on it
\* returns r, also when the fetch and store steps of requests interleave.
C5_Kept ==
  \A gameID \in RoomIDs :
    (/\ rooms[gameID].exists /\ rooms[gameID].nextRoomID # NoRoomID
     /\ rooms'[gameID].exists)
    => rooms'[gameID].nextRoomID = rooms[gameID].nextRoomID

C5_Returned ==
  \A p \in Procs :
    (/\ pending[p] # Idle
     /\ pending[p].op = "playAgain"
     /\ Finish(p)
     /\ rooms[pending[p].gameID].exists
     /\ rooms[pending[p].gameID].nextRoomID # NoRoomID)
    => Handle(pending[p], nextCred, pending[p].created).body
         = rooms[pending[p].gameID].nextRoomID

C5_NextRoomIDImmutable == [][C5_Kept /\ C5_Returned]_vars

\* C6: FormTeams with 1 <= numOfTeams <= n, n the number of eligible (seated,
\* player-flagged, not admin-flagged) slots, answers with teams that hold
\* every eligible slot exactly once and no other slot, of sizes that differ
\* by at most 1, each non-empty team with exactly one member flagged leader,
\* and stores them.
Eligible(metadata) ==
  {playerID \in DOMAIN metadata.players :
     /\ Seated(metadata, playerID)
     /\ metadata.players[playerID].data.player
     /\ ~metadata.players[playerID].data.admin}

C6_Partition(teams, after, eligible, numOfTeams) ==
  /\ Len(teams) = numOfTeams
  /\ \A playerID \in eligible :
       Cardinality({ij \in (1..Len(teams)) \X (1..MaxPlayers) :
                      /\ ij[2] <= Len(teams[ij[1]].playersID)
                      /\ teams[ij[1]].playersID[ij[2]] = playerID}) = 1
  /\ \A i \in 1..Len(teams) : \A j \in 1..Len(teams[i].playersID) :
       teams[i].playersID[j] \in eligible
  /\ \A i, k \in 1..Len(teams) :
       Len(teams[i].playersID) - Len(teams[k].playersID) <= 1
  /\ \A i \in 1..Len(teams) :
       Len(teams[i].playersID) > 0 =>
         Cardinality({j \in 1..Len(teams[i].playersID) :
                        LET d == after.players[teams[i].playersID[j]].data
                        IN d.hasTeamData /\ d.teamID = teams[i].teamID
                           /\ d.teamLeader}) = 1
  /\ after.setupData.present => after.setupData.teams = teams

C6_Step ==
  \A gameID \in RoomIDs, numOfTeams \in 1..MaxPlayers :
    (/\ rooms[gameID].exists
     /\ numOfTeams <= Cardinality(Eligible(rooms[gameID]))
     /\ FormTeams(gameID, numOfTeams))
    => LET o == CreateTeam(rooms[gameID], numOfTeams)
       IN /\ o.status = 200
          /\ C6_Partition(o.body, rooms'[gameID], Eligible(rooms[gameID]),
                          numOfTeams)

C6_FormTeamsPartitions == [][C6_Step]_vars

\* C7: RotateLeader on a team as FormTeams leaves it (its members carry its
\* id, one of them is flagged leader): with 2 or more members, afterwards
\* exactly one member is flagged leader, it is not the prior leader, and no
\* slot's team id and no recorded team has changed; with at most 1 member
\* the store is unchanged.
TeamMembers(metadata, teamID) ==
  {playerID \in DOMAIN metadata.players :
     /\ metadata.players[playerID].data.hasTeamData
     /\ metadata.players[playerID].data.teamID = teamID}

TeamLeaders(metadata, teamID) ==
  {playerID \in TeamMembers(metadata, teamID) :
     metadata.players[playerID].data.teamLeader}

C7_Step ==
  \A gameID \in RoomIDs, teamID \in TeamIDs, playerID_newLeader \in PlayerIDs :
    (/\ rooms[gameID].exists
     /\ RotateLeader(gameID, teamID, playerID_newLeader))
    => LET m == rooms[gameID]
           after == rooms'[gameID]
       IN IF Cardinality(TeamMembers(m, teamID)) >= 2
            THEN Cardinality(TeamLeaders(m, teamID)) = 1 =>
                   /\ Cardinality(TeamLeaders(after, teamID)) = 1
                   /\ TeamLeaders(after, teamID) # TeamLeaders(m, teamID)
                   /\ \A t \in TeamIDs :
                        TeamMembers(after, t) = TeamMembers(m, t)
                   /\ after.setupData.teams = m.setupData.teams
            ELSE rooms' = rooms

C7_RotateLeaderRotates == [][C7_Step]_vars

\* C8: in every stored room, every team with a member has exactly one member
\* flagged leader.
C8_OneLeaderPerTeam ==
  \A gameID \in RoomIDs, teamID \in TeamIDs :
    TeamMembers(rooms[gameID], teamID) # {} =>
      Cardinality(TeamLeaders(rooms[gameID], teamID)) = 1

\* C9: a leave that passes its checks ends with db.wipe when no other slot
\* has a name and with db.setMetadata otherwise, so that afterwards the room
\* is in the store, and GetRoom answers 200, if and only if a slot still has
\* a name; GetRoom on a room that is not in the store answers 404, and a
\* wiped room never comes back.
C9_LeaveOutcome ==
  \A gameID \in RoomIDs : \A playerID \in Slots(gameID) :
    \A credentials \in Credentials :
      LET m == rooms[gameID]
          o == leave(m, playerID, credentials)
          after == Apply(rooms, gameID, o)[gameID]
      IN o.status = 200 =>
           /\ after.exists <=>
                \E other \in DOMAIN m.players \ {playerID} : Seated(m, other)
           /\ after.exists <=> SomeSeated(after.players)
           /\ after.exists => after = o.metadata
           /\ GetRoomHandler(after, gameID).status
                = IF after.exists THEN 200 ELSE 404

C9_GetRoom ==
  \A gameID \in RoomIDs :
    GetRoomHandler(Fetch(rooms, gameID), gameID).status
      = IF rooms[gameID].exists THEN 200 ELSE 404

C9_StaysDeleted ==
  \A gameID \in RoomIDs :
    (gameID < nextID /\ ~rooms[gameID].exists) => ~rooms'[gameID].exists

C9_LeaveDeletesEmptyRoom ==
  [](C9_LeaveOutcome /\ C9_GetRoom) /\ [][C9_StaysDeleted]_vars

\* a room was created, a player joined it and its last seated player has
\* left: the room is wiped and GetRoom answers 404
C9_Witness ==
  \E gameID \in RoomIDs :
    /\ gameID < nextID
    /\ ~rooms[gameID].exists
    /\ nextCred > 1
    /\ GetRoomHandler(Fetch(rooms, gameID), gameID).status = 404

\* C10: after a leave that passes its checks and keeps the room in the
\* store, the slot has no name, no credentials, no team id and no leader
\* flag.
C10_Step ==
  \A gameID \in RoomIDs : \A playerID \in Slots(gameID) :
    \A credentials \in Credentials :
      (/\ leave(rooms[gameID], playerID, credentials).status = 200
       /\ LeaveRoom(gameID, playerID, credentials)
       /\ rooms'[gameID].exists)
      => LET slot == rooms'[gameID].players[playerID]
         IN /\ slot.name = ""
            /\ slot.credentials = NoCredentials
            /\ ~slot.data.hasTeamData
            /\ slot.data.leader # "true"

C10_LeaveClearsTeam == [][C10_Step]_vars

\* C11 (as stated): CreateRoom with numPlayers = k, k being 2 when the field
\* is absent or not a number, stores a room with exactly the slots 0..k-1,
\* each with its index as id and without name and credentials; and a stored
\* room keeps its set of slots, each slot's id equal to its index.
C11_Fresh(metadata, k) ==
  /\ metadata.exists
  /\ DOMAIN metadata.players = 0..(k - 1)
  /\ \A i \in DOMAIN metadata.players :
       /\ metadata.players[i].id = i
       /\ metadata.players[i].name = ""
       /\ metadata.players[i].credentials = NoCredentials

C11_IdIsIndex ==
  \A gameID \in RoomIDs : \A i \in Slots(gameID) :
    rooms[gameID].players[i].id = i

C11_SlotsKept ==
  \A gameID \in RoomIDs :
    (rooms[gameID].exists /\ rooms'[gameID].exists)
      => DOMAIN rooms'[gameID].players = DOMAIN rooms[gameID].players

C11_CreatedAsStated ==
  \A numPlayers \in NumPlayersArgs, setupData \in SetupDataArgs,
     unlisted \in UnlistedArgs :
    CreateRoom(TRUE, numPlayers, setupData, unlisted)
      => C11_Fresh(rooms'[nextID],
                   IF numPlayers = NoNumPlayers THEN DefaultNumPlayers
                   ELSE numPlayers)

C11_SlotsAsCreated ==
  [](C11_IdIsIndex) /\ [][C11_CreatedAsStated /\ C11_SlotsKept]_vars

\* C11 (amended): as stated for k >= 1; numPlayers = 0 is taken like an
\* absent field and gives the slots 0 and 1.
C11_CreatedFixed ==
  \A numPlayers \in NumPlayersArgs, setupData \in SetupDataArgs,
     unlisted \in UnlistedArgs :
    CreateRoom(TRUE, numPlayers, setupData, unlisted)
      => C11_Fresh(rooms'[nextID],
                   IF numPlayers = NoNumPlayers \/ numPlayers = 0
                     THEN DefaultNumPlayers ELSE numPlayers)

C11_SlotsFixed ==
  [](C11_IdIsIndex) /\ [][C11_CreatedFixed /\ C11_SlotsKept]_vars

\* a room created with one slot and a room created with two, the second
\* with both slots joined since: the slots are as created
C11_Witness ==
  \E g, h \in RoomIDs :
    /\ rooms[g].exists /\ DOMAIN rooms[g].players = {0}
    /\ rooms[h].exists /\ DOMAIN rooms[h].players = {0, 1}
    /\ \A i \in {0, 1} : Seated(rooms[h], i)

\* C12: a playAgain from a seated slot, with its credentials, on a room
\* without nextRoomID creates a room whose slots are all open, as many as
\* numPlayers says when it is given and as many as the source room has
\* seated slots otherwise, with the request's setupData when it is given and
\* the source room's otherwise, and stores the new id as the source room's
\* nextRoomID.
SeatedCount(metadata) ==
  Cardinality({i \in DOMAIN metadata.players : Seated(metadata, i)})

C12_Step ==
  \A gameID \in RoomIDs : \A playerID \in Slots(gameID) :
    \A setupData \in SetupDataArgs, numPlayers \in NumPlayersArgs \ {0},
       unlisted \in UnlistedArgs :
      (/\ Seated(rooms[gameID], playerID)
       /\ rooms[gameID].nextRoomID = NoRoomID
       /\ RequestSuccessor(gameID, playerID,
                           rooms[gameID].players[playerID].credentials,
                           setupData, numPlayers, unlisted))
      => /\ nextID' = nextID + 1
         /\ C11_Fresh(rooms'[nextID],
                      IF numPlayers # NoNumPlayers THEN numPlayers
                      ELSE SeatedCount(rooms[gameID]))
         /\ rooms'[nextID].setupData
              = IF setupData.present THEN setupData
                ELSE rooms[gameID].setupData
         /\ rooms'[gameID].nextRoomID = nextID

C12_SuccessorShape == [][C12_Step]_vars

\* C13: a FormTeams without numOfTeams, and a FormTeams on a room without
\* setupData, is answered 403 and leaves the store as it is.
C13_Step ==
  \A gameID \in RoomIDs, numOfTeams \in NumOfTeamsArgs :
    (/\ rooms[gameID].exists
     /\ numOfTeams = NoNumOfTeams \/ ~rooms[gameID].setupData.present
     /\ FormTeams(gameID, numOfTeams))
    => /\ CreateTeam(rooms[gameID], numOfTeams).status = 403
       /\ rooms' = rooms

C13_FormTeamsValidates == [][C13_Step]_vars

\* C16: a leave of a seated slot that passes its checks on a room with
\* nextRoomID leaves the room in the store, with its nextRoomID, also when no
\* slot has a name afterwards.
C16_Step ==
  \A gameID \in RoomIDs : \A playerID \in Slots(gameID) :
    \A credentials \in Credentials :
      (/\ rooms[gameID].nextRoomID # NoRoomID
       /\ Seated(rooms[gameID], playerID)
       /\ leave(rooms[gameID], playerID, credentials).status = 200
       /\ LeaveRoom(gameID, playerID, credentials))
      => /\ rooms'[gameID].exists
         /\ rooms'[gameID].nextRoomID = rooms[gameID].nextRoomID

C16_LeaveKeepsSucceededRoom == [][C16_Step]_vars

\* C19: on a slot without name and credentials, no leave, update or
\* playAgain is answered 200, whatever credentials it carries (0: none).
C19_OpenSlotRefused ==
  \A gameID \in RoomIDs : \A playerID \in Slots(gameID) :
    \A credentials \in Credentials :
      LET m == rooms[gameID]
      IN (~Seated(m, playerID)
          /\ m.players[playerID].credentials = NoCredentials) =>
           /\ leave(m, playerID, credentials).status # 200
           /\ \A newName \in NameArgs, data \in DataArgs :
                updatePlayerMetadata(m, playerID, credentials, newName,
                                     data).status # 200
           /\ \A setupData \in SetupDataArgs, numPlayers \in NumPlayersArgs :
                playAgain(m, playerID, credentials, setupData, numPlayers,
                          FALSE, nextID).status # 200

\* C20: no player record in the body of a ListRooms, GetRoom, FormTeams or
\* RotateLeader response carries a stored credential.
HasCredential(player) ==
  "credentials" \in DOMAIN player /\ player.credentials # NoCredentials

C20_NoCredentialDisclosed ==
  /\ \A room \in ListRoomsBody(rooms) : \A i \in DOMAIN room.players :
       ~HasCredential(room.players[i])
  /\ \A gameID \in RoomIDs :
       LET m == rooms[gameID]
       IN m.exists =>
            /\ \A i \in DOMAIN m.players :
                 ~HasCredential(GetRoomHandler(m, gameID).body.players[i])
            /\ \A numOfTeams \in 1..MaxPlayers :
                 LET o == CreateTeam(m, numOfTeams)
                 IN o.status = 200 =>
                      \A i \in 1..Len(o.body) :
                        DOMAIN o.body[i] = {"teamID", "playersID"}
            /\ \A teamID \in TeamIDs :
                 \A playerID_newLeader \in NewLeaders(m, teamID) :
                   LET o == UpdateLeader(m, teamID, playerID_newLeader)
                   IN o.status = 200 =>
                        \A i \in DOMAIN o.body.new_players :
                          ~HasCredential(o.body.new_players[i])

\* C14: whatever request is sent in whatever reachable state, a handler run
\* that does not end with status 200 makes no store call and creates no
\* room: the store after it is the store before it.
C14_Closed(gameID, o) ==
  o.status # 200 =>
    /\ o.write = "none"
    /\ ~o.created.exists
    /\ Apply(Created(rooms, nextID, o), gameID, o) = rooms

C14_FailClosed ==
  \A gameID \in RoomIDs :
    LET m == Fetch(rooms, gameID)
    IN /\ \A playerID \in PlayerIDs, playerName \in NameArgs, data \in DataArgs :
            C14_Closed(gameID, join(m, playerID, playerName, data, nextCred))
       /\ \A playerID \in PlayerIDs, credentials \in Credentials :
            /\ C14_Closed(gameID, leave(m, playerID, credentials))
            /\ \A newName \in NameArgs, data \in DataArgs :
                 C14_Closed(gameID, updatePlayerMetadata(m, playerID, credentials,
                                                         newName, data))
            /\ \A setupData \in SetupDataArgs, numPlayers \in NumPlayersArgs :
                 C14_Closed(gameID, playAgain(m, playerID, credentials, setupData,
                                              numPlayers, FALSE, nextID))
       /\ \A playerName \in NameArgs, credentials \in Credentials :
            C14_Closed(gameID, RejoinGame(m, playerName, credentials))
       /\ \A numOfTeams \in NumOfTeamsArgs :
            C14_Closed(gameID, CreateTeam(m, numOfTeams))
       /\ \A teamID \in TeamIDs :
            \A playerID_newLeader \in NewLeaders(m, teamID) :
              C14_Closed(gameID, UpdateLeader(m, teamID, playerID_newLeader))

\* teams are stored in a room, and a FormTeams without numOfTeams (403), a
\* RotateLeader of a team that is not there (404), a second join of a slot
\* (409) and a leave with another slot's credentials (403) are turned away
C14_Witness ==
  \E gameID \in RoomIDs :
    LET m == rooms[gameID]
    IN /\ m.exists
       /\ DOMAIN m.players = {0, 1}
       /\ m.setupData.hasTeams
       /\ TeamLeaders(m, 0) # {}
       /\ CreateTeam(m, NoNumOfTeams).status = 403
       /\ UpdateLeader(m, 1, NoPlayerID).status = 404
       /\ join(m, 0, "B", NoData, nextCred).status = 409
       /\ leave(m, 0, m.players[1].credentials).status = 403

\* C15: when a join of slot a is in flight with a fetched record in which
\* another slot b is open, and b has been seated in the store since, then the
\* join in flight ends with status 200, returns credentials, and the record
\* it stores seats a and not b.
C15_LostUpdate ==
  \A p \in Procs :
    (pending[p] # Idle /\ pending[p].op = "join") =>
      LET req == pending[p]
          o == Handle(req, nextCred, NoRoomID)
          after == Apply(rooms, req.gameID, o)[req.gameID]
      IN \A b \in DOMAIN req.metadata.players \ {req.playerID} :
           (/\ rooms[req.gameID].exists
            /\ ~Seated(req.metadata, b)
            /\ Seated(rooms[req.gameID], b))
           => /\ o.status = 200
              /\ o.body = nextCred
              /\ after.exists
              /\ Seated(after, req.playerID)
              /\ ~Seated(after, b)

\* two joins fetched a room with both slots open; the join of slot 1 has
\* stored its seat and returned credentials, the join of slot 0 is about to
\* store a record in which slot 1 is open
C15_Witness ==
  \E p \in Procs :
    /\ pending[p] # Idle
    /\ pending[p].op = "join"
    /\ pending[p].playerID = 0
    /\ ~Seated(pending[p].metadata, 1)
    /\ rooms[pending[p].gameID].exists
    /\ rooms[pending[p].gameID].players[1].credentials # NoCredentials
    /\ ~Seated(rooms[pending[p].gameID], 0)
    /\ LET o == Handle(pending[p], nextCred, NoRoomID)
       IN /\ o.status = 200
          /\ SeatedCount(Apply(rooms, pending[p].gameID, o)[pending[p].gameID]) = 1

\* C18: a rejoin, turned away or not, leaves the store as it is, also when
\* other requests run between its fetch and its store call.
C18_Step ==
  \A p \in Procs :
    /\ (pending[p] # Idle /\ pending[p].op = "rejoin" /\ Finish(p))
         => rooms' = rooms
    /\ \A gameID \in RoomIDs, playerName \in ConcNames,
          credentials \in Credentials :
         BeginRejoin(p, gameID, playerName, credentials) => rooms' = rooms

C18_RejoinChangesNothing == [][C18_Step]_vars

\* C17: on a room whose n slots all have a name, the player flag and no
\* admin flag, CreateTeam with 1 <= t <= n answers 200 with the teams of the
\* reference algorithm: with base = n \div t and r = n % t, team i holds the
\* slots i*base .. (i+1)*base-1 in that order, then slot t*base+i when i < r;
\* in the record it stores, slot i*base is the one leader of team i.
RefTeam(base, r, t, i) ==
  [j \in 1..base |-> i * base + j - 1]
    \o (IF i < r THEN <<t * base + i>> ELSE <<>>)

AllPlayers(metadata) ==
  /\ metadata.exists
  /\ DOMAIN metadata.players # {}
  /\ \A i \in DOMAIN metadata.players :
       /\ Seated(metadata, i)
       /\ metadata.players[i].data.player
       /\ ~metadata.players[i].data.admin

C17_AsReference(metadata, t) ==
  LET n == Cardinality(DOMAIN metadata.players)
      base == n \div t
      r == n % t
      o == CreateTeam(metadata, t)
      after == Apply(rooms, 1, o)[1]
  IN /\ o.status = 200
     /\ Len(o.body) = t
     /\ \A i \in 0..(t - 1) :
          /\ o.body[i + 1].teamID = i
          /\ o.body[i + 1].playersID = RefTeam(base, r, t, i)
          /\ \A j \in 1..Len(o.body[i + 1].playersID) :
               LET d == after.players[o.body[i + 1].playersID[j]].data
               IN /\ d.hasTeamData /\ d.teamID = i
                  /\ d.teamLeader <=> (j = 1)
                  /\ d.leader = IF j = 1 THEN "true" ELSE "false"
     /\ after.setupData.present => after.setupData.teams = o.body

C17_ReferenceTeams ==
  AllPlayers(rooms[1]) =>
    \A t \in 1..Cardinality(DOMAIN rooms[1].players) :
      C17_AsReference(rooms[1], t)

\* 7 players in 2 teams: the stored teams are <<0, 1, 2, 6>> and <<3, 4, 5>>,
\* led by the slots 0 and 3
C17_Witness ==
  /\ Cardinality(DOMAIN rooms[1].players) = 7
  /\ rooms[1].setupData.hasTeams
  /\ rooms[1].setupData.teams
       = <<[teamID |-> 0, playersID |-> <<0, 1, 2, 6>>],
           [teamID |-> 1, playersID |-> <<3, 4, 5>>]>>
  /\ TeamLeaders(rooms[1], 0) = {0}
  /\ TeamLeaders(rooms[1], 1) = {3}
====
